---- MODULE Spec2Model ----
(***************************************************************************)
(* Model of pg-inspector (inspect.go).                                     *)
(*                                                                         *)
(* The file holds two programs:                                            *)
(*   - the catalog introspection pipeline (func main, lines 114-181),      *)
(*     checked under Spec;                                                 *)
(*   - the customReader of the HTTP demo (lines 211-237), checked under    *)
(*     SpecReader.                                                         *)
(***************************************************************************)
EXTENDS Integers, Sequences, FiniteSets, TLC

VARIABLES
    pc,         \* position of main: [at |-> "call" | "wait" | "exited", stage |-> ...]
    opened,     \* dbr.Open succeeded (dbConn is a live connection)
    closed,     \* the deferred dbConn.Close() has run
    exit,       \* "running", "return" (main returned) or "os.Exit(1)" (log.Fatal)
    inflight,   \* queries sent on the connection and not yet answered
    issued,     \* sequence of the queries sent so far
    ret,        \* per stage: outcome of the call (err / n)
    dbName,     \* var dbName string
    schemas,    \* var schemas []TSchemata
    tables,     \* var tables []TTables
    columns,    \* var columns []TColumns
    log,        \* entries written by the logger to its output
    reads,      \* payload reads (.String) done by main: field and its Valid flag
    dropped,    \* schema names of the view rows the WHERE clauses left out
    size,       \* customReader.size
    iter,       \* customReader.iter
    lastOp,     \* last customReader method called
    lastLen,    \* len(b) of the last Read
    lastN,      \* n returned by the last Read
    lastErr,    \* err returned by the last Read
    prevIter,   \* iter before the last call
    requested   \* sum of the maxRead values of the Reads since construction / Reset

pipeVars == <<pc, opened, closed, exit, inflight, issued, ret, dbName,
              schemas, tables, columns, log, reads, dropped>>
readerVars == <<size, iter, lastOp, lastLen, lastN, lastErr, prevIter, requested>>
vars == <<pc, opened, closed, exit, inflight, issued, ret, dbName,
          schemas, tables, columns, log, reads, dropped,
          size, iter, lastOp, lastLen, lastN, lastErr, prevIter, requested>>

(***************************************************************************)
(* Bounds                                                                  *)
(***************************************************************************)
MaxRows == 2
MaxSize == 3
MaxBuf == 2

(***************************************************************************)
(* Nullable domain types (dbr.NullString: payload String, flag Valid)      *)
(***************************************************************************)
Null == [Valid |-> FALSE, String |-> ""]
Str(s) == [Valid |-> TRUE, String |-> s]

SchemaNames == {"swipe", "swipe2", "Swipe"}
SQLIdentifier == {Null} \cup {Str(s) : s \in SchemaNames}

TSchemata == [SchemaName : SQLIdentifier, SchemaOwner : {Null, Str("postgres")}]
TTables == [TableSchema : SQLIdentifier, TableName : {Str("users")},
            TableType : {Null, Str("BASE TABLE")}]
TColumns == [TableSchema : SQLIdentifier, TableName : {Str("users")},
             ColumnName : {Null, Str("id")}]

CatalogNames == {"inspected", "postgres"}

BoundedSeq(S, n) == UNION {[1..k -> S] : k \in 0..n}

(***************************************************************************)
(* Logger: logrus.New() with the TextFormatter; the level is left at the   *)
(* default of logrus.New().  An entry reaches the output only when its     *)
(* level is enabled.                                                       *)
(***************************************************************************)
Levels == <<"panic", "fatal", "error", "warning", "info", "debug">>
LevelRank(l) == CHOOSE i \in 1..Len(Levels) : Levels[i] = l
LoggerLevel == "info"
IsLevelEnabled(l) == LevelRank(LoggerLevel) >= LevelRank(l)

Logf(lg, level, msg) ==
    IF IsLevelEnabled(level) THEN Append(lg, [level |-> level, msg |-> msg]) ELSE lg

RECURSIVE LogEach(_, _, _)
LogEach(lg, level, msgs) ==
    IF msgs = <<>> THEN lg
    ELSE LogEach(Logf(lg, level, Head(msgs)), level, Tail(msgs))

SchemaMsg(v) == <<"schema ", v.SchemaName.String, " owned by ", v.SchemaOwner.String>>
TableMsg(v) == <<"table ", v.TableSchema.String, ".", v.TableName.String,
                 " type ", v.TableType.String>>
ColumnMsg(v) == <<"column ", v.TableSchema.String, ".", v.TableName.String,
                  ".", v.ColumnName.String>>

\* the .String selectors evaluated for the arguments of one Debugf call
SchemaReads(v) == {[field |-> "SchemaName", valid |-> v.SchemaName.Valid],
                   [field |-> "SchemaOwner", valid |-> v.SchemaOwner.Valid]}
TableReads(v) == {[field |-> "TableSchema", valid |-> v.TableSchema.Valid],
                  [field |-> "TableName", valid |-> v.TableName.Valid],
                  [field |-> "TableType", valid |-> v.TableType.Valid]}
ColumnReads(v) == {[field |-> "TableSchema", valid |-> v.TableSchema.Valid],
                   [field |-> "TableName", valid |-> v.TableName.Valid],
                   [field |-> "ColumnName", valid |-> v.ColumnName.Valid]}

(***************************************************************************)
(* Queries                                                                 *)
(***************************************************************************)
SchemaWhitelist == {"swipe"}

Lower(s) == IF s = "Swipe" THEN "swipe" ELSE s

\* a careless comparison: case-insensitive
SqlInFolded(x, list) == x.Valid /\ \E w \in list : Lower(x.String) = Lower(w)

\* SQL "x IN ?" with the list bound to ?: NULL never matches, otherwise
\* exact equality with a member
SqlIn(x, list) == x.Valid /\ x.String \in list

SelectSchemata(view) == SelectSeq(view, LAMBDA r : SqlIn(r.SchemaName, SchemaWhitelist))
SelectTables(view) == SelectSeq(view, LAMBDA r : SqlIn(r.TableSchema, SchemaWhitelist))
SelectColumns(view) == SelectSeq(view, LAMBDA r : SqlIn(r.TableSchema, SchemaWhitelist))

Range(s) == {s[i] : i \in 1..Len(s)}

(***************************************************************************)
(* Control flow of main                                                    *)
(***************************************************************************)
Stages == {"open", "catalog_name", "schemata", "tables", "columns"}
Queries == Stages \ {"open"}

Call(s) == [at |-> "call", stage |-> s]
Wait(s) == [at |-> "wait", stage |-> s]
Exited(s) == [at |-> "exited", stage |-> s]

NoRet == [st |-> "none", n |-> 0]
Err == [st |-> "err", n |-> 0]
Ok(n) == [st |-> "ok", n |-> n]

\* textual order of the calls, swapped
AfterSwapped(s) ==
    CASE s = "open" -> "catalog_name"
      [] s = "catalog_name" -> "schemata"
      [] s = "schemata" -> "columns"
      [] s = "columns" -> "tables"
      [] OTHER -> "end"

\* textual order of the calls in main
After(s) ==
    CASE s = "open" -> "catalog_name"
      [] s = "catalog_name" -> "schemata"
      [] s = "schemata" -> "tables"
      [] s = "tables" -> "columns"
      [] OTHER -> "end"

\* log.Error in place of log.Fatal: logs and falls through
FatalFallThrough(msg) ==
    /\ log' = Logf(log, "error", msg)
    /\ pc' = Call(After(pc.stage))
    /\ UNCHANGED <<exit, closed>>

\* log.WithError(err).Fatal(msg): writes the entry, then os.Exit(1);
\* deferred calls do not run
Fatal(msg) ==
    /\ log' = Logf(log, "fatal", msg)
    /\ pc' = Exited(pc.stage)
    /\ exit' = "os.Exit(1)"
    /\ UNCHANGED closed

\* return from main: the deferred dbConn.Close() runs
Return(lg) ==
    /\ log' = lg
    /\ pc' = Exited(pc.stage)
    /\ exit' = "return"
    /\ closed' = TRUE

\* the empty result treated as a failure
EmptyAbortAsFatal(msg) ==
    /\ log' = Logf(log, "fatal", msg)
    /\ pc' = Exited(pc.stage)
    /\ exit' = "os.Exit(1)"
    /\ UNCHANGED closed

\* if n == 0 { log.Warn(msg); return }
EmptyAbort(msg) == Return(Logf(log, "warning", msg))

\* the n == 0 test left out
IsEmptyNever(n) == n < 0

IsEmpty(n) == n = 0

Continue(lg, s) ==
    /\ log' = lg
    /\ pc' = Call(s)
    /\ UNCHANGED <<exit, closed>>

Send(q) ==
    /\ pc = Call(q)
    /\ pc' = Wait(q)
    /\ inflight' = inflight \cup {q}
    /\ issued' = Append(issued, q)
    /\ UNCHANGED <<opened, closed, exit, ret, dbName, schemas, tables, columns,
                   log, reads, dropped>>

InitPipe ==
    /\ pc = Call("open")
    /\ opened = FALSE
    /\ closed = FALSE
    /\ exit = "running"
    /\ inflight = {}
    /\ issued = <<>>
    /\ ret = [s \in Stages |-> NoRet]
    /\ dbName = ""
    /\ schemas = <<>>
    /\ tables = <<>>
    /\ columns = <<>>
    /\ log = <<>>
    /\ reads = {}
    /\ dropped = {}

\* dbr.Open
Open ==
    /\ pc = Call("open")
    /\ \E ok \in BOOLEAN :
         IF ok
           THEN /\ opened' = TRUE
                /\ ret' = [ret EXCEPT !["open"] = Ok(0)]
                /\ Continue(log, After("open"))
           ELSE /\ ret' = [ret EXCEPT !["open"] = Err]
                /\ Fatal(<<"Cannot connect to db">>)
                /\ UNCHANGED opened
    /\ UNCHANGED <<inflight, issued, dbName, schemas, tables, columns, reads, dropped>>
    /\ UNCHANGED readerVars

\* dbS.Select("*").From(...catalog_name).LoadOne(&dbName): the query goes out
LoadName == Send("catalog_name") /\ UNCHANGED readerVars

\* ... and its answer
LoadNameDone ==
    /\ pc = Wait("catalog_name")
    /\ inflight' = inflight \ {"catalog_name"}
    /\ \E failed \in BOOLEAN, r \in CatalogNames :
         IF failed
           THEN /\ ret' = [ret EXCEPT !["catalog_name"] = Err]
                /\ Fatal(<<"load database name">>)
                /\ UNCHANGED dbName
           ELSE /\ ret' = [ret EXCEPT !["catalog_name"] = Ok(1)]
                /\ dbName' = r
                /\ Continue(Logf(log, "info", <<"db name: ", r>>), After("catalog_name"))
    /\ UNCHANGED <<opened, issued, schemas, tables, columns, reads, dropped>>
    /\ UNCHANGED readerVars

\* SelectBySql("... schemata WHERE schema_name IN ?", schemaWhitelist).Load(&schemas)
LoadSchemas == Send("schemata") /\ UNCHANGED readerVars

LoadSchemasDone ==
    /\ pc = Wait("schemata")
    /\ inflight' = inflight \ {"schemata"}
    /\ \E failed \in BOOLEAN, view \in BoundedSeq(TSchemata, MaxRows) :
         LET rows == SelectSchemata(view)
             n == Len(rows)
         IN IF failed
              THEN /\ ret' = [ret EXCEPT !["schemata"] = Err]
                   /\ Fatal(<<"select schemas">>)
                   /\ UNCHANGED <<schemas, reads, dropped>>
              ELSE /\ ret' = [ret EXCEPT !["schemata"] = Ok(n)]
                   /\ schemas' = rows
                   /\ dropped' = dropped \cup
                                 ({r.SchemaName : r \in Range(view)} \
                                  {r.SchemaName : r \in Range(rows)})
                   /\ IF IsEmpty(n)
                        THEN /\ EmptyAbort(<<"no schemas available">>)
                             /\ UNCHANGED reads
                        ELSE /\ reads' = reads \cup UNION {SchemaReads(v) : v \in Range(rows)}
                             /\ Continue(LogEach(log, "debug",
                                                 [i \in 1..n |-> SchemaMsg(rows[i])]),
                                         After("schemata"))
    /\ UNCHANGED <<opened, issued, dbName, tables, columns>>
    /\ UNCHANGED readerVars

\* SelectBySql("... tables WHERE table_schema IN ?", schemaWhitelist).Load(&tables)
LoadTables == Send("tables") /\ UNCHANGED readerVars

LoadTablesDone ==
    /\ pc = Wait("tables")
    /\ inflight' = inflight \ {"tables"}
    /\ \E failed \in BOOLEAN, view \in BoundedSeq(TTables, MaxRows) :
         LET rows == SelectTables(view)
             n == Len(rows)
         IN IF failed
              THEN /\ ret' = [ret EXCEPT !["tables"] = Err]
                   /\ Fatal(<<"select tables">>)
                   /\ UNCHANGED <<tables, reads, dropped>>
              ELSE /\ ret' = [ret EXCEPT !["tables"] = Ok(n)]
                   /\ tables' = rows
                   /\ dropped' = dropped \cup
                                 ({r.TableSchema : r \in Range(view)} \
                                  {r.TableSchema : r \in Range(rows)})
                   /\ IF IsEmpty(n)
                        THEN /\ EmptyAbort(<<"no tables available">>)
                             /\ UNCHANGED reads
                        ELSE /\ reads' = reads \cup UNION {TableReads(v) : v \in Range(rows)}
                             /\ Continue(LogEach(log, "debug",
                                                 [i \in 1..n |-> TableMsg(rows[i])]),
                                         After("tables"))
    /\ UNCHANGED <<opened, issued, dbName, schemas, columns>>
    /\ UNCHANGED readerVars

\* SelectBySql("... columns WHERE table_schema IN ?", schemaWhitelist).Load(&columns)
LoadColumns == Send("columns") /\ UNCHANGED readerVars

LoadColumnsDone ==
    /\ pc = Wait("columns")
    /\ inflight' = inflight \ {"columns"}
    /\ \E failed \in BOOLEAN, view \in BoundedSeq(TColumns, MaxRows) :
         LET rows == SelectColumns(view)
             n == Len(rows)
         IN IF failed
              THEN /\ ret' = [ret EXCEPT !["columns"] = Err]
                   /\ Fatal(<<"select columns">>)
                   /\ UNCHANGED <<columns, reads, dropped>>
              ELSE /\ ret' = [ret EXCEPT !["columns"] = Ok(n)]
                   /\ columns' = rows
                   /\ dropped' = dropped \cup
                                 ({r.TableSchema : r \in Range(view)} \
                                  {r.TableSchema : r \in Range(rows)})
                   /\ IF IsEmpty(n)
                        THEN /\ EmptyAbort(<<"no columns available">>)
                             /\ UNCHANGED reads
                        ELSE /\ reads' = reads \cup UNION {ColumnReads(v) : v \in Range(rows)}
                             /\ Return(LogEach(log, "debug",
                                               [i \in 1..n |-> ColumnMsg(rows[i])]))
    /\ UNCHANGED <<opened, issued, dbName, schemas, tables>>
    /\ UNCHANGED readerVars

InitReaderIdle ==
    /\ size = 0
    /\ iter = 0
    /\ lastOp = "new"
    /\ lastLen = 0
    /\ lastN = 0
    /\ lastErr = "nil"
    /\ prevIter = 0
    /\ requested = 0

Init == InitPipe /\ InitReaderIdle

Next ==
    \/ Open
    \/ LoadName
    \/ LoadNameDone
    \/ LoadSchemas
    \/ LoadSchemasDone
    \/ LoadTables
    \/ LoadTablesDone
    \/ LoadColumns
    \/ LoadColumnsDone

Spec == Init /\ [][Next]_vars

(***************************************************************************)
(* customReader (second program of the file)                               *)
(***************************************************************************)
\* r := &customReader{size: ...}; the pipeline does not run in this program
InitReader ==
    /\ size \in 0..MaxSize
    /\ iter = 0
    /\ lastOp = "new"
    /\ lastLen = 0
    /\ lastN = 0
    /\ lastErr = "nil"
    /\ prevIter = 0
    /\ requested = 0

\* Read advancing by len(b) without the clamp to size - iter
ReadNoClamp ==
    /\ \E len \in 0..MaxBuf :
         /\ lastLen' = len
         /\ IF size - iter = 0
              THEN /\ lastN' = 0
                   /\ lastErr' = "EOF"
                   /\ UNCHANGED <<iter, requested>>
              ELSE /\ lastN' = len
                   /\ lastErr' = "nil"
                   /\ iter' = iter + len
                   /\ requested' = requested + len
    /\ lastOp' = "Read"
    /\ prevIter' = iter
    /\ UNCHANGED size
    /\ UNCHANGED pipeVars

\* func (r *customReader) Read(b []byte) (int, error)
Read ==
    /\ \E len \in 0..MaxBuf :
         LET avail == size - iter
             maxRead == IF avail > len THEN len ELSE avail
         IN /\ lastLen' = len
            /\ IF avail = 0
                 THEN /\ lastN' = 0
                      /\ lastErr' = "EOF"
                      /\ UNCHANGED <<iter, requested>>
                 ELSE \* rand.Read(b[:maxRead]): n = maxRead exactly when err is nil
                      /\ \E n \in 0..maxRead :
                           /\ lastN' = n
                           /\ lastErr' = IF n = maxRead THEN "nil" ELSE "rand"
                      /\ iter' = iter + maxRead
                      /\ requested' = requested + maxRead
    /\ lastOp' = "Read"
    /\ prevIter' = iter
    /\ UNCHANGED size
    /\ UNCHANGED pipeVars

\* func (r *customReader) Close() error
Close ==
    /\ lastOp' = "Close"
    /\ prevIter' = iter
    /\ UNCHANGED <<size, iter, lastLen, lastN, lastErr, requested>>
    /\ UNCHANGED pipeVars

\* func (r *customReader) Reset()
Reset ==
    /\ iter' = 0
    /\ requested' = 0
    /\ lastOp' = "Reset"
    /\ prevIter' = iter
    /\ UNCHANGED <<size, lastLen, lastN, lastErr>>
    /\ UNCHANGED pipeVars

NextReader ==
    \/ Read
    \/ Close
    \/ Reset

InitR == InitPipe /\ InitReader

SpecReader == InitR /\ [][NextReader]_vars

(***************************************************************************)
(* Properties                                                              *)
(***************************************************************************)
Last(s) == s[Len(s)]
Min(a, b) == IF a < b THEN a ELSE b
Occurrences(s, x) == Cardinality({i \in 1..Len(s) : s[i] = x})
IsPrefix(s, t) == Len(s) <= Len(t) /\ \A i \in 1..Len(s) : s[i] = t[i]
ListingStages == {"schemata", "tables", "columns"}

\* C1: once the schema listing has returned zero rows, neither the table nor
\* the column listing is ever issued; once the table listing has returned zero
\* rows, the column listing is never issued.
C1_ShortCircuit ==
    /\ ret["schemata"] = Ok(0) =>
          /\ "tables" \notin Range(issued)
          /\ "columns" \notin Range(issued)
          /\ pc = Exited("schemata")
    /\ ret["tables"] = Ok(0) =>
          /\ "columns" \notin Range(issued)
          /\ pc = Exited("tables")

C1_Witness ==
    /\ ret["schemata"] = Ok(0)
    /\ pc.at = "exited"
    /\ issued = <<"catalog_name", "schemata">>

\* C2: whenever the process has ended after a successful open, the
\* connection's Close has run.
C2_ReleasedOnEveryExit == (pc.at = "exited" /\ opened) => closed

\* C3: the queries go out in the order catalog name, schemas, tables, columns,
\* never two at a time, and a listing is issued only after the listing before
\* it has returned.
C3_QueryOrder ==
    /\ IsPrefix(issued, <<"catalog_name", "schemata", "tables", "columns">>)
    /\ Cardinality(inflight) <= 1
    /\ "tables" \in Range(issued) =>
          ret["schemata"].st # "none" /\ "schemata" \notin inflight
    /\ "columns" \in Range(issued) =>
          ret["tables"].st # "none" /\ "tables" \notin inflight

C3_Witness == inflight = {"columns"} /\ Len(issued) = 4

FatalMsg(s) ==
    CASE s = "open" -> <<"Cannot connect to db">>
      [] s = "catalog_name" -> <<"load database name">>
      [] s = "schemata" -> <<"select schemas">>
      [] s = "tables" -> <<"select tables">>
      [] OTHER -> <<"select columns">>

\* C4: when the open or one of the four queries fails, the error is the last
\* thing logged (at fatal level), the process has exited through os.Exit(1),
\* the failed operation is the last one performed and was performed once, and
\* nothing is in flight.
C4_FailureIsFatal ==
    \A s \in Stages :
        ret[s] = Err =>
          /\ pc = Exited(s)
          /\ exit = "os.Exit(1)"
          /\ log # <<>>
          /\ Last(log) = [level |-> "fatal", msg |-> FatalMsg(s)]
          /\ Occurrences(log, Last(log)) = 1
          /\ inflight = {}
          /\ \A q \in Queries : Occurrences(issued, q) <= 1
          /\ IF s = "open" THEN issued = <<>> ELSE issued # <<>> /\ Last(issued) = s

C4_Witness == ret["tables"] = Err /\ pc.at = "exited" /\ Len(log) = 2

WarnMsg(s) ==
    CASE s = "schemata" -> <<"no schemas available">>
      [] s = "tables" -> <<"no tables available">>
      [] OTHER -> <<"no columns available">>

\* C5: when a listing returns zero rows, the process ends by returning from
\* main, the log holds exactly one warning, which names that stage and is the
\* last entry, and holds no error, fatal or panic entry.
C5_EmptyIsNotFailure ==
    \A s \in ListingStages :
        ret[s] = Ok(0) =>
          /\ pc = Exited(s)
          /\ exit = "return"
          /\ log # <<>>
          /\ Last(log) = [level |-> "warning", msg |-> WarnMsg(s)]
          /\ Cardinality({i \in 1..Len(log) : log[i].level = "warning"}) = 1
          /\ \A i \in 1..Len(log) : log[i].level \notin {"panic", "fatal", "error"}

C5_Witness == ret["columns"] = Ok(0) /\ pc.at = "exited" /\ tables # <<>>

\* C6: in a finished run where all four queries succeeded and every listing
\* was non-empty, the log output holds the catalog name and a summary line for
\* every schema, table and column returned.
C6_SummariesEmitted ==
    (/\ pc.at = "exited"
     /\ ret["catalog_name"].st = "ok"
     /\ \A s \in ListingStages : ret[s].st = "ok" /\ ret[s].n > 0)
    => /\ \E i \in 1..Len(log) : log[i].msg = <<"db name: ", dbName>>
       /\ \A v \in Range(schemas) : \E i \in 1..Len(log) : log[i].msg = SchemaMsg(v)
       /\ \A v \in Range(tables) : \E i \in 1..Len(log) : log[i].msg = TableMsg(v)
       /\ \A v \in Range(columns) : \E i \in 1..Len(log) : log[i].msg = ColumnMsg(v)

\* C7: no payload of a field whose source value was NULL is ever read.
C7_PresenceChecked == \A r \in reads : r.valid

\* C8: every row of the schema, table and column listings carries a schema
\* name that is present and exactly "swipe", the one whitelist member; rows of
\* "swipe2" and "Swipe" appear in no listing.
C8_WhitelistExact ==
    /\ \A v \in Range(schemas) : v.SchemaName = Str("swipe")
    /\ \A v \in Range(tables) : v.TableSchema = Str("swipe")
    /\ \A v \in Range(columns) : v.TableSchema = Str("swipe")

C8_Witness ==
    /\ {Str("swipe2"), Str("Swipe")} \subseteq dropped
    /\ schemas # <<>>
    /\ tables # <<>>
    /\ columns # <<>>

\* C10: 0 <= iter <= size always; a Read at iter = size returns 0 and EOF and
\* leaves iter alone, any other Read advances iter by min(size - iter, len(b));
\* Close leaves iter alone; Reset sets iter to 0; when a Read reports EOF the
\* amounts requested by the Reads since construction or the last Reset sum to
\* size.
C10_ReaderContract ==
    /\ 0 <= iter /\ iter <= size
    /\ lastOp = "Read" =>
          IF prevIter = size
            THEN lastN = 0 /\ lastErr = "EOF" /\ iter = prevIter
            ELSE lastErr # "EOF" /\ iter = prevIter + Min(size - prevIter, lastLen)
    /\ lastOp = "Close" => iter = prevIter
    /\ lastOp = "Reset" => iter = 0
    /\ requested = iter
    /\ (lastOp = "Read" /\ lastErr = "EOF") => requested = size

C10_Witness ==
    /\ lastOp = "Read"
    /\ lastErr = "EOF"
    /\ size = MaxSize
    /\ requested = size

====
